---------------------------- MODULE Spec2Model ----------------------------
(***************************************************************************)
(* Conversation and messaging core of the agromarket backend:              *)
(* ChatController (src/src/controllers/chat.controller.js) over the Chat   *)
(* and Message tables (src/src/db/models/message.model.js).                *)
(*                                                                         *)
(* Every request handler is a process that moves from one awaited database *)
(* statement to the next; statements of different requests interleave.     *)
(* A read of columns that never change after insertion (a chat's buyerId,  *)
(* sellerId, equipmentId; the users table) is merged with the step before  *)
(* it, since it commutes with every other statement.                       *)
(***************************************************************************)
EXTENDS Integers, Sequences, FiniteSets, Bags, TLC

\* ------------------------------------------------------------------ bounds
MaxChats == 3
MaxMsgs == 3
MaxTime == 2
\* messages sent under concurrent requests
MaxRaceMsgs == 2
\* messages sent with bodies at the length limits
MaxBodyMsgs == 2
\* messages sent into two conversations
MaxInboxMsgs == 2
\* messages sent while statements may fail
MaxFailMsgs == 2
\* messages sent, read and deleted
MaxLogMsgs == 2
\* messages sent, read, marked and extended
MaxFlagMsgs == 2
MaxFlagChats == 2

\* --------------------------------------------------------------- universe
Procs == {"p1", "p2"}
\* rows of the users table; NoUser is an id with no row
Users == {"u1", "u2", "u3"}
NoUser == "u0"
UserIds == Users \cup {NoUser}
\* rows of the equipment table; NoEquipment is an id that never had a row
EquipmentIds == {"e1"}
NoEquipment == "e0"
\* Equipment.sellerId
SellerOf(e) == "u1"

VARIABLES
  chats,      \* Chat table, in insertion order; a chat's id is its index
  messages,   \* Message table, in insertion (commit) order
  nextId,     \* next fresh Message.id
  equipment,  \* ids of the equipment rows that are not (soft-)deleted
  now,        \* the wall clock read by new Date()
  events,     \* bag of the socket.io events emitted so far
  io,         \* whether req.app.get('io') is set
  uniqueKey,  \* whether the Chat table has a unique index on its key
  pc,         \* per request: the statement it is about to run
  call,       \* per request: its arguments and local variables
  resp        \* per request: the response sent

vars == <<chats, messages, nextId, equipment, now, events, io, uniqueKey, pc, call, resp>>
db == <<chats, messages, nextId, equipment, now, events, io, uniqueKey>>

NoCall == [op |-> "none"]
NoResp == [code |-> "none"]
Ok(v) == [code |-> "OK", data |-> v]
\* ErrorHelper.generateError(code, ...) passed to next(error)
Err(code) == [code |-> code]

Finish(p, r) ==
  /\ pc' = [pc EXCEPT ![p] = "done"]
  /\ resp' = [resp EXCEPT ![p] = r]

Goto(p, label) ==
  /\ pc' = [pc EXCEPT ![p] = label]
  /\ UNCHANGED resp

\* ------------------------------------------------------- getOrCreateChat
ChatWhereOneWay(c, senderId, recipientId, equipmentId) ==
  c.buyerId = senderId /\ c.sellerId = recipientId /\ c.equipmentId = equipmentId

\* where-clause of the lookup: either direction of the pair, same equipment
ChatWhere(c, senderId, recipientId, equipmentId) ==
  \/ c.buyerId = senderId /\ c.sellerId = recipientId /\ c.equipmentId = equipmentId
  \/ c.buyerId = recipientId /\ c.sellerId = senderId /\ c.equipmentId = equipmentId

FindChats(senderId, recipientId, equipmentId) ==
  {i \in DOMAIN chats : ChatWhere(chats[i], senderId, recipientId, equipmentId)}

IsSelfChatNever(senderId, recipientId) == FALSE

\* if (senderId === recipientId)
IsSelfChat(senderId, recipientId) == senderId = recipientId

\* db.User.findByPk(recipientId)
UserExists(u) == u \in Users

EquipmentExistsAlways(e) == TRUE

\* db.Equipment.findByPk(equipmentId): paranoid model, deleted rows are hidden
EquipmentExists(e) == e \in equipment

IsSellerNever(equipmentId, senderId) == FALSE

\* const isSeller = equipment.sellerId === senderId; buyerId / sellerId
IsSeller(equipmentId, senderId) == SellerOf(equipmentId) = senderId
BuyerId(equipmentId, senderId, recipientId) ==
  IF IsSeller(equipmentId, senderId) THEN recipientId ELSE senderId
SellerId(equipmentId, senderId, recipientId) ==
  IF IsSeller(equipmentId, senderId) THEN senderId ELSE recipientId

CreatingChat == {p \in Procs : pc[p] \in {"goc_findOne", "goc_equipment", "goc_create"}}

\* request arrives; step 1 of the handler (self-chat check) is synchronous
GocStart(p) ==
  /\ pc[p] = "idle"
  /\ Len(chats) + Cardinality(CreatingChat) < MaxChats
  /\ \E s \in Users, r \in UserIds, e \in EquipmentIds \cup {NoEquipment} :
       /\ call' = [call EXCEPT ![p] =
            [op |-> "getOrCreateChat", senderId |-> s, recipientId |-> r, equipmentId |-> e]]
       /\ IF IsSelfChat(s, r)
            THEN Finish(p, Err("VALIDATION_ERROR"))
            ELSE Goto(p, "goc_findOne")
  /\ UNCHANGED db

\* step 2: db.Chat.findOne; on a miss, db.User.findByPk(recipientId)
GocFindOne(p) ==
  /\ pc[p] = "goc_findOne"
  /\ LET c == call[p]
         found == FindChats(c.senderId, c.recipientId, c.equipmentId)
     IN IF found # {}
          THEN \E i \in found : Finish(p, Ok(i))
          ELSE IF ~UserExists(c.recipientId)
            THEN Finish(p, Err("NOT_FOUND"))
            ELSE Goto(p, "goc_equipment")
  /\ UNCHANGED <<db, call>>

\* db.Equipment.findByPk(equipmentId) and the role assignment
GocEquipment(p) ==
  /\ pc[p] = "goc_equipment"
  /\ LET c == call[p]
     IN IF ~EquipmentExists(c.equipmentId)
          THEN Finish(p, Err("NOT_FOUND")) /\ UNCHANGED call
          ELSE /\ Goto(p, "goc_create")
               /\ call' = [call EXCEPT ![p] =
                    [op |-> c.op, senderId |-> c.senderId, recipientId |-> c.recipientId,
                     equipmentId |-> c.equipmentId,
                     buyerId |-> BuyerId(c.equipmentId, c.senderId, c.recipientId),
                     sellerId |-> SellerId(c.equipmentId, c.senderId, c.recipientId)]]
  /\ UNCHANGED db

\* rows that a unique index on (buyerId, sellerId, equipmentId) would reject
KeyTaken(buyerId, sellerId, equipmentId) ==
  \E i \in DOMAIN chats :
    /\ chats[i].buyerId = buyerId
    /\ chats[i].sellerId = sellerId
    /\ chats[i].equipmentId = equipmentId

NewChatByRecipient(c) ==
  [buyerId |-> c.buyerId, sellerId |-> c.sellerId, equipmentId |-> c.equipmentId,
   initiatedBy |-> c.recipientId, lastMessageAt |-> 0]

\* db.Chat.create({ buyerId, sellerId, equipmentId, initiatedBy: senderId })
NewChat(c) ==
  [buyerId |-> c.buyerId, sellerId |-> c.sellerId, equipmentId |-> c.equipmentId,
   initiatedBy |-> c.senderId, lastMessageAt |-> 0]

\* db.Chat.create and the reload by primary key; a unique-index violation
\* reaches the error middleware as SequelizeUniqueConstraintError -> CONFLICT
GocCreate(p) ==
  /\ pc[p] = "goc_create"
  /\ LET c == call[p]
     IN IF uniqueKey /\ KeyTaken(c.buyerId, c.sellerId, c.equipmentId)
          THEN Finish(p, Err("CONFLICT")) /\ UNCHANGED chats
          ELSE /\ chats' = Append(chats, NewChat(c))
               /\ Finish(p, Ok(Len(chats) + 1))
  /\ UNCHANGED <<messages, nextId, equipment, now, events, io, uniqueKey, call>>

\* EquipmentController.deleteEquipment: equipment.destroy() on a paranoid model
DeleteEquipment(e) ==
  /\ e \in equipment
  /\ equipment' = equipment \ {e}
  /\ UNCHANGED <<chats, messages, nextId, now, events, io, uniqueKey, pc, call, resp>>

\* the client has read the response; the process takes the next request
Return(p) ==
  /\ pc[p] = "done"
  /\ pc' = [pc EXCEPT ![p] = "idle"]
  /\ call' = [call EXCEPT ![p] = NoCall]
  /\ resp' = [resp EXCEPT ![p] = NoResp]
  /\ UNCHANGED db

\* ------------------------------------------------------------ sendMessage
\* a request body: `core` characters between `pad` characters of white space
MinContentLen == 1
MaxContentLen == 2000
Body(pad, core) == [pad |-> pad, core |-> core]
BasicBodies == {Body(0, 1), Body(1, 0)}
BoundaryBodies ==
  {Body(0, 0), Body(MaxContentLen, 0), Body(0, MinContentLen),
   Body(0, MaxContentLen), Body(1, MaxContentLen - 1), Body(1, MaxContentLen),
   Body(0, MaxContentLen + 1)}
RawLen(b) == b.pad + b.core
\* content.trim().length
TrimLen(b) == b.core
\* if (!content || content.trim().length === 0)
IsBlank(b) == RawLen(b) = 0 \/ TrimLen(b) = 0
ContentValidExclusive(n) == n >= MinContentLen /\ n < MaxContentLen

\* Message.content: notEmpty, len [1, 2000], on the trimmed content
ContentValid(n) == n >= MinContentLen /\ n <= MaxContentLen

IsParticipantAny(c, userId) == TRUE

\* where: { id: chatId, [Op.or]: [{ buyerId: userId }, { sellerId: userId }] }
IsParticipant(c, userId) == c.buyerId = userId \/ c.sellerId = userId

FindUserChatById(chatId, userId) == {i \in DOMAIN chats : i = chatId}

\* db.Chat.findOne({ where: { id: chatId, [Op.or]: [...] } }): the row, or null
FindUserChat(chatId, userId) ==
  {i \in DOMAIN chats : i = chatId /\ IsParticipant(chats[i], userId)}

\* a value of new Date() read between instant `from` and the current statement
Dates(from) == from .. now

TouchChatNever(chatId, at) == chats

\* chat.update({ lastMessageAt }) / Chat.update(..., { where: { id } })
TouchChat(chatId, at) ==
  [i \in DOMAIN chats |->
     IF i = chatId
       THEN [chats[i] EXCEPT !.lastMessageAt = at]
       ELSE chats[i]]

With(c, f) == [k \in DOMAIN c \cup DOMAIN f |-> IF k \in DOMAIN f THEN f[k] ELSE c[k]]

Sending == {p \in Procs : pc[p] = "send_create"}

\* request arrives; steps 1-2 (membership, blank check), then Message.create
\* builds and validates the row and stamps createdAt before the INSERT is sent
SendStart(p, bodies, bound) ==
  /\ pc[p] = "idle"
  /\ nextId + Cardinality(Sending) <= bound
  /\ \E chatId \in DOMAIN chats, s \in Users, b \in bodies :
       /\ call' = [call EXCEPT ![p] =
            IF FindUserChat(chatId, s) # {} /\ ~IsBlank(b) /\ ContentValid(TrimLen(b))
              THEN [op |-> "sendMessage", chatId |-> chatId, senderId |-> s, body |-> b,
                    content |-> TrimLen(b), createdAt |-> now]
              ELSE [op |-> "sendMessage", chatId |-> chatId, senderId |-> s, body |-> b]]
       /\ IF FindUserChat(chatId, s) = {}
            THEN Finish(p, Err("FORBIDDEN"))
            ELSE IF IsBlank(b) \/ ~ContentValid(TrimLen(b))
              THEN Finish(p, Err("VALIDATION_ERROR"))
              ELSE Goto(p, "send_create")
  /\ UNCHANGED db

NewMessage(c, id) ==
  [id |-> id, chatId |-> c.chatId, senderId |-> c.senderId, content |-> c.content,
   isRead |-> FALSE, attachments |-> <<>>, createdAt |-> c.createdAt]

\* step 3: the INSERT of Message.create commits
SendCreate(p) ==
  /\ pc[p] = "send_create"
  /\ messages' = Append(messages, NewMessage(call[p], nextId))
  /\ nextId' = nextId + 1
  /\ call' = [call EXCEPT ![p] = With(call[p], [messageId |-> nextId, at |-> now])]
  /\ Goto(p, "send_hook")
  /\ UNCHANGED <<chats, equipment, now, events, io, uniqueKey>>

\* Message.hooks.afterCreate: Chat.update({ lastMessageAt: new Date() })
SendHook(p) ==
  /\ pc[p] = "send_hook"
  /\ \E at \in Dates(call[p].at) : chats' = TouchChat(call[p].chatId, at)
  /\ call' = [call EXCEPT ![p] = With(call[p], [at |-> now])]
  /\ Goto(p, "send_update")
  /\ UNCHANGED <<messages, nextId, equipment, now, events, io, uniqueKey>>

\* step 4: chat.update({ lastMessageAt: new Date() })
SendUpdate(p) ==
  /\ pc[p] = "send_update"
  /\ \E at \in Dates(call[p].at) : chats' = TouchChat(call[p].chatId, at)
  /\ Goto(p, "send_respond")
  /\ UNCHANGED <<messages, nextId, equipment, now, events, io, uniqueKey, call>>

\* db.Message.findByPk(id): the row, or null
FindMessage(id) == {i \in DOMAIN messages : messages[i].id = id}

Event(type, room, messageId) == [type |-> type, room |-> room, messageId |-> messageId]
RecipientIsSender(c, senderId) == senderId

\* const recipientId = chat.buyerId === senderId ? chat.sellerId : chat.buyerId
RecipientOf(c, senderId) == IF c.buyerId = senderId THEN c.sellerId ELSE c.buyerId
\* step 7: io.to(`chat_${chatId}`).emit(...), io.to(`user_${recipientId}`).emit(...)
SendEvents(chatId, senderId, messageId) ==
  SetToBag({Event("newMessage", <<"chat", chatId>>, messageId),
            Event("newChatMessage", <<"user", RecipientOf(chats[chatId], senderId)>>, messageId)})

\* steps 5-7: reload by primary key, respond 201, then emit
SendRespond(p) ==
  /\ pc[p] = "send_respond"
  /\ LET c == call[p]
         row == FindMessage(c.messageId)
     IN /\ Finish(p, Ok(IF row = {} THEN 0 ELSE c.messageId))
        /\ events' = IF io THEN events (+) SendEvents(c.chatId, c.senderId, c.messageId)
                           ELSE events
        /\ call' = [call EXCEPT ![p] =
             [op |-> c.op, chatId |-> c.chatId, senderId |-> c.senderId, body |-> c.body]]
  /\ UNCHANGED <<chats, messages, nextId, equipment, now, io, uniqueKey>>

\* next(error) reaches ErrorMiddleware.handler, whose response.status(...).json(...)
\* throws once a response has been sent: the response that was sent stays
AfterErrorOverwrites(sent, e) == e

AfterError(sent, e) == IF sent = NoResp THEN e ELSE sent

\* steps 5-7 when an emit throws after `emitted` of the two events went out:
\* the 201 was sent, the catch block passes the exception to next(error)
SendEmitFails(p) ==
  /\ pc[p] = "send_respond"
  /\ io
  /\ LET c == call[p]
         row == FindMessage(c.messageId)
         sent == Ok(IF row = {} THEN 0 ELSE c.messageId)
     IN /\ Finish(p, AfterError(sent, Err("INTERNAL_ERROR")))
        /\ \E emitted \in SUBSET {Event("newMessage", <<"chat", c.chatId>>, c.messageId)} :
             events' = events (+) SetToBag(emitted)
        /\ call' = [call EXCEPT ![p] =
             [op |-> c.op, chatId |-> c.chatId, senderId |-> c.senderId, body |-> c.body,
              messageId |-> c.messageId, failed |-> TRUE]]
  /\ UNCHANGED <<chats, messages, nextId, equipment, now, io, uniqueKey>>

\* an awaited statement of sendMessage (the INSERT, the hook's UPDATE, the
\* handler's UPDATE, the reload) is rejected by the database: it stores
\* nothing, and the catch block passes the error to next(error)
SendFails(p) ==
  /\ pc[p] \in {"send_create", "send_hook", "send_update", "send_respond"}
  /\ Finish(p, AfterError(resp[p], Err("DATABASE_ERROR")))
  /\ UNCHANGED <<db, call>>

\* -------------------------------------------------------- getChatMessages
Limits == {1, MaxMsgs}
Pages == {1, 2}

ChatMessages(chatId) == {i \in DOMAIN messages : messages[i].chatId = chatId}

\* order: [['createdAt', 'DESC']]: every order of the rows that the sort key
\* allows; rows with equal createdAt come in any order
Orderings(S) ==
  {f \in [1 .. Cardinality(S) -> S] :
     /\ \A i, j \in DOMAIN f : i # j => f[i] # f[j]
     /\ \A i, j \in DOMAIN f : i < j => messages[f[i]].createdAt >= messages[f[j]].createdAt}

Min(a, b) == IF a < b THEN a ELSE b
\* limit, offset
PageOf(ord, limit, offset) ==
  [k \in 1 .. (Min(offset + limit, Len(ord)) - Min(offset, Len(ord))) |->
     messages[ord[offset + k]].id]

\* rows.reverse()
Reverse(s) == [k \in 1 .. Len(s) |-> s[Len(s) + 1 - k]]

\* request arrives; step 1 (membership)
GetStart(p) ==
  /\ pc[p] = "idle"
  /\ \E chatId \in DOMAIN chats, u \in Users, page \in Pages, limit \in Limits :
       /\ call' = [call EXCEPT ![p] =
            [op |-> "getChatMessages", chatId |-> chatId, userId |-> u,
             page |-> page, limit |-> limit]]
       /\ IF FindUserChat(chatId, u) = {}
            THEN Finish(p, Err("FORBIDDEN"))
            ELSE Goto(p, "get_page")
  /\ UNCHANGED db

\* step 2: db.Message.findAndCountAll
GetPage(p) ==
  /\ pc[p] = "get_page"
  /\ LET c == call[p]
     IN \E ord \in Orderings(ChatMessages(c.chatId)) :
          call' = [call EXCEPT ![p] =
            With(c, [rows |-> PageOf(ord, c.limit, (c.page - 1) * c.limit)])]
  /\ Goto(p, "get_mark")
  /\ UNCHANGED db

MarkWhereAnySender(m, chatId, userId) == m.chatId = chatId /\ ~m.isRead

\* where: { chatId, senderId: { [Op.ne]: userId }, isRead: false }
MarkWhere(m, chatId, userId) == m.chatId = chatId /\ m.senderId # userId /\ ~m.isRead

\* step 3: db.Message.update({ isRead: true }, ...), one statement
GetMark(p) ==
  /\ pc[p] = "get_mark"
  /\ messages' = [i \in DOMAIN messages |->
       IF MarkWhere(messages[i], call[p].chatId, call[p].userId)
         THEN [messages[i] EXCEPT !.isRead = TRUE]
         ELSE messages[i]]
  /\ call' = [call EXCEPT ![p] = With(call[p], [at |-> now])]
  /\ Goto(p, "get_update")
  /\ UNCHANGED <<chats, nextId, equipment, now, events, io, uniqueKey>>

\* steps 4-5: if (rows.length > 0) chat.update(...); respond with rows.reverse()
GetUpdate(p) ==
  /\ pc[p] = "get_update"
  /\ LET c == call[p]
     IN /\ IF Len(c.rows) > 0
             THEN \E at \in Dates(c.at) : chats' = TouchChat(c.chatId, at)
             ELSE UNCHANGED chats
        /\ Finish(p, Ok(Reverse(c.rows)))
        /\ call' = [call EXCEPT ![p] =
             [op |-> c.op, chatId |-> c.chatId, userId |-> c.userId,
              page |-> c.page, limit |-> c.limit]]
  /\ UNCHANGED <<messages, nextId, equipment, now, events, io, uniqueKey>>

\* ---------------------------------------------------------- getUnreadCount
\* db.Message.count({ where: { chatId in chatIds, senderId != userId, isRead: false } })
CountUnread(chatIds, userId) ==
  Cardinality({i \in DOMAIN messages :
    /\ messages[i].chatId \in chatIds
    /\ messages[i].senderId # userId
    /\ ~messages[i].isRead})

\* db.Chat.findAll({ where: { [Op.or]: [{ buyerId: userId }, { sellerId: userId }] } })
UserChatsAll(userId) == DOMAIN chats

UserChats(userId) == {i \in DOMAIN chats : IsParticipant(chats[i], userId)}

\* request arrives; step 1: the ids of the user's chats
UnreadStart(p) ==
  /\ pc[p] = "idle"
  /\ \E u \in Users :
       call' = [call EXCEPT ![p] =
         [op |-> "getUnreadCount", userId |-> u, chatIds |-> UserChats(u)]]
  /\ Goto(p, "unread_count")
  /\ UNCHANGED db

\* steps 2-3: db.Message.count over these chats; respond
UnreadCount(p) ==
  /\ pc[p] = "unread_count"
  /\ Finish(p, Ok(CountUnread(call[p].chatIds, call[p].userId)))
  /\ UNCHANGED <<db, call>>

\* Message.getUnreadCount(userId, chatId): `0` stands for chatId = null
NoChat == 0
\* '$chat.participants$': { [Op.contains]: [userId] }
Participants(c) == {c.buyerId, c.sellerId}
ScopedUnread(userId, chatId) ==
  Cardinality({i \in DOMAIN messages :
    /\ ~messages[i].isRead
    /\ userId \in Participants(chats[messages[i].chatId])
    /\ messages[i].senderId # userId
    /\ chatId # NoChat => messages[i].chatId = chatId})

\* a call of the model's static method; it answers with the count
ModelUnread(p) ==
  /\ pc[p] = "idle"
  /\ \E u \in Users, chatId \in DOMAIN chats \cup {NoChat} :
       /\ call' = [call EXCEPT ![p] =
            [op |-> "Message.getUnreadCount", userId |-> u, chatId |-> chatId]]
       /\ Finish(p, Ok(ScopedUnread(u, chatId)))
  /\ UNCHANGED db

\* ------------------------------------------------------------ getUserChats
\* const { page = 1, limit = 10 } = req.query
DefaultChatLimit == 10
ChatLimits == {1, DefaultChatLimit}

\* order: [['lastMessageAt', 'DESC']]: every order of the chats that the sort
\* key allows
ChatOrderingsAscending(S) ==
  {f \in [1 .. Cardinality(S) -> S] :
     /\ \A i, j \in DOMAIN f : i # j => f[i] # f[j]
     /\ \A i, j \in DOMAIN f : i < j => chats[f[i]].lastMessageAt <= chats[f[j]].lastMessageAt}

ChatOrderings(S) ==
  {f \in [1 .. Cardinality(S) -> S] :
     /\ \A i, j \in DOMAIN f : i # j => f[i] # f[j]
     /\ \A i, j \in DOMAIN f : i < j => chats[f[i]].lastMessageAt >= chats[f[j]].lastMessageAt}

\* include messages, limit: 1, order: [['createdAt', 'DESC']]; chat.messages[0] || null
LastMessages(chatId) ==
  IF ChatMessages(chatId) = {}
    THEN {0}
    ELSE {messages[ord[1]].id : ord \in Orderings(ChatMessages(chatId))}

\* limit, offset over the ordered chats
ChatPage(ord, limit, offset) ==
  [k \in 1 .. (Min(offset + limit, Len(ord)) - Min(offset, Len(ord))) |-> ord[offset + k]]

\* the whole handler: one findAndCountAll, format, respond
GetUserChats(p) ==
  /\ pc[p] = "idle"
  /\ \E u \in Users, page \in Pages, limit \in ChatLimits :
       \E ord \in ChatOrderings(UserChats(u)) :
         LET ids == ChatPage(ord, limit, (page - 1) * limit)
         IN \E last \in [DOMAIN ids -> 0 .. Len(messages) + nextId] :
              /\ \A k \in DOMAIN ids : last[k] \in LastMessages(ids[k])
              /\ call' = [call EXCEPT ![p] =
                   [op |-> "getUserChats", userId |-> u, page |-> page, limit |-> limit]]
              /\ Finish(p, Ok([k \in DOMAIN ids |-> [id |-> ids[k], lastMessage |-> last[k]]]))
  /\ UNCHANGED db

\* ----------------------------------------------------------- deleteMessage
\* req.user.role; "moderator" is a role name that ROLES does not define
Roles == {"buyer", "seller", "admin", "verified_seller", "moderator"}
\* ROLES[KEY].permissions.messages
MessagePermissions(role) ==
  CASE role = "buyer" -> {"create", "read"}
    [] role = "seller" -> {"create", "read", "manage"}
    [] role = "admin" -> {"read", "delete"}
    [] OTHER -> {}
\* ROLES[KEY].inherits
Inherits(role) == IF role = "verified_seller" THEN {"seller"} ELSE {}
\* RoleManager.hasPermission(roleKey, 'messages', permission)
HasPermission(role, permission) ==
  /\ role \in {"buyer", "seller", "admin", "verified_seller"}
  /\ \/ \E r \in Inherits(role) : permission \in MessagePermissions(r)
     \/ permission \in MessagePermissions(role)

CanDeleteSenderOnly(m, userId, role) == m.senderId = userId

\* !(message.senderId !== userId && !RoleManager.hasPermission(role, 'messages', 'delete'))
CanDelete(m, userId, role) == m.senderId = userId \/ HasPermission(role, "delete")

\* request arrives; steps 1-2: findByPk, the permission check
DelStart(p) ==
  /\ pc[p] = "idle"
  /\ \E id \in 1 .. nextId, u \in Users, role \in Roles :
       LET c == [op |-> "deleteMessage", messageId |-> id, userId |-> u, role |-> role]
           row == FindMessage(id)
       IN IF row = {}
            THEN /\ call' = [call EXCEPT ![p] = c]
                 /\ Finish(p, Err("NOT_FOUND"))
            ELSE LET m == messages[CHOOSE i \in row : TRUE]
                 IN /\ call' = [call EXCEPT ![p] = With(c, [chatId |-> m.chatId])]
                    /\ IF CanDelete(m, u, role)
                         THEN Goto(p, "del_destroy")
                         ELSE Finish(p, Err("FORBIDDEN"))
  /\ UNCHANGED db

WithoutThrough(id) == SelectSeq(messages, LAMBDA m : m.id > id)

\* the rows that are left after DELETE ... WHERE id
Without(id) == SelectSeq(messages, LAMBDA m : m.id # id)

\* step 3: message.destroy()
DelDestroy(p) ==
  /\ pc[p] = "del_destroy"
  /\ messages' = Without(call[p].messageId)
  /\ Goto(p, "del_respond")
  /\ UNCHANGED <<chats, nextId, equipment, now, events, io, uniqueKey, call>>

\* step 5: io.to(`chat_${message.chatId}`).emit('messageDeleted', ...)
DeleteEvents(chatId, messageId) ==
  SetToBag({Event("messageDeleted", <<"chat", chatId>>, messageId)})

\* steps 4-5: respond 204, then emit
DelRespond(p) ==
  /\ pc[p] = "del_respond"
  /\ Finish(p, Ok(0))
  /\ events' = IF io THEN events (+) DeleteEvents(call[p].chatId, call[p].messageId)
                     ELSE events
  /\ UNCHANGED <<chats, messages, nextId, equipment, now, io, uniqueKey, call>>

\* steps 4-5 when the emit throws: the 204 was sent, the catch block passes
\* the exception to next(error)
DelEmitFails(p) ==
  /\ pc[p] = "del_respond"
  /\ io
  /\ Finish(p, AfterError(Ok(0), Err("INTERNAL_ERROR")))
  /\ call' = [call EXCEPT ![p] = With(call[p], [failed |-> TRUE])]
  /\ UNCHANGED db

\* ------------------------------------------- Message instance methods
MaxAttachments == 5
Urls == {"f1", "f2"}

\* a caller obtains an instance of a stored message
LoadMessage(p) ==
  /\ pc[p] = "idle"
  /\ \E i \in DOMAIN messages :
       call' = [call EXCEPT ![p] =
         [op |-> "instance", messageId |-> messages[i].id,
          attachments |-> messages[i].attachments]]
  /\ Goto(p, "loaded")
  /\ UNCHANGED db

UpdateMessageWholeRow(id, field, value) ==
  [i \in DOMAIN messages |->
     IF messages[i].id = id
       THEN [[messages[i] EXCEPT !.isRead = FALSE] EXCEPT ![field] = value]
       ELSE messages[i]]

\* UPDATE ... SET <field> = value WHERE id: instance.update writes the named field
UpdateMessage(id, field, value) ==
  [i \in DOMAIN messages |->
     IF messages[i].id = id THEN [messages[i] EXCEPT ![field] = value] ELSE messages[i]]

\* Message.prototype.markAsRead: this.update({ isRead: true })
MarkAsRead(p) ==
  /\ pc[p] = "loaded"
  /\ messages' = UpdateMessage(call[p].messageId, "isRead", TRUE)
  /\ Finish(p, Ok(0))
  /\ call' = [call EXCEPT ![p] = [op |-> "markAsRead", messageId |-> call[p].messageId]]
  /\ UNCHANGED <<chats, nextId, equipment, now, events, io, uniqueKey>>

\* validateAttachments: value.length > 5 throws
AttachmentsValid(list) == Len(list) <= MaxAttachments
\* if (this.attachments.length >= 5) throw
AtLimit(list) == Len(list) >= MaxAttachments

\* Message.prototype.addAttachment on the instance the caller holds
AddAttachment(p, urls) ==
  /\ pc[p] = "loaded"
  /\ \E url \in urls :
       LET c == call[p]
           list == Append(c.attachments, url)
       IN /\ call' = [call EXCEPT ![p] =
                [op |-> "addAttachment", messageId |-> c.messageId, url |-> url]]
          /\ IF AtLimit(c.attachments)
               THEN /\ Finish(p, Err("ERROR"))
                    /\ UNCHANGED messages
               ELSE IF ~AttachmentsValid(list)
                 THEN /\ Finish(p, Err("VALIDATION_ERROR"))
                      /\ UNCHANGED messages
                 ELSE /\ Finish(p, Ok(0))
                      /\ messages' = UpdateMessage(c.messageId, "attachments", list)
  /\ UNCHANGED <<chats, nextId, equipment, now, events, io, uniqueKey>>

\* time passes
Tick ==
  /\ now < MaxTime
  /\ now' = now + 1
  /\ UNCHANGED <<chats, messages, nextId, equipment, events, io, uniqueKey, pc, call, resp>>

\* --------------------------------------------------------- specifications
Chat(buyerId, sellerId, equipmentId, initiatedBy) ==
  [buyerId |-> buyerId, sellerId |-> sellerId, equipmentId |-> equipmentId,
   initiatedBy |-> initiatedBy, lastMessageAt |-> 0]

InitWith(c) ==
  /\ chats = c
  /\ messages = <<>>
  /\ nextId = 1
  /\ equipment = EquipmentIds
  /\ now = 1
  /\ events = EmptyBag
  /\ pc = [p \in Procs |-> "idle"]
  /\ call = [p \in Procs |-> NoCall]
  /\ resp = [p \in Procs |-> NoResp]

\* an empty database
Init ==
  /\ InitWith(<<>>)
  /\ io = TRUE
  /\ uniqueKey \in BOOLEAN

\* one conversation about the listing of u1, as getOrCreateChat stores it
InitMsg ==
  /\ InitWith(<<Chat("u2", "u1", "e1", "u2")>>)
  /\ io = TRUE
  /\ uniqueKey = FALSE

ChatNext ==
  \/ \E p \in Procs : GocStart(p)
  \/ \E p \in Procs : GocFindOne(p)
  \/ \E p \in Procs : GocEquipment(p)
  \/ \E p \in Procs : GocCreate(p)
  \/ \E e \in EquipmentIds : DeleteEquipment(e)
  \/ \E p \in Procs : Return(p)

MsgNext(P, bodies, bound) ==
  \/ \E p \in P : SendStart(p, bodies, bound)
  \/ \E p \in P : SendCreate(p)
  \/ \E p \in P : SendHook(p)
  \/ \E p \in P : SendUpdate(p)
  \/ \E p \in P : SendRespond(p)
  \/ \E p \in P : GetStart(p)
  \/ \E p \in P : GetPage(p)
  \/ \E p \in P : GetMark(p)
  \/ \E p \in P : GetUpdate(p)
  \/ Tick
  \/ \E p \in P : Return(p)

\* each request completes before the next one starts
Sequential == Cardinality({p \in Procs : pc'[p] \notin {"idle", "done"}}) <= 1
\* a client that sends its requests one after the other
OneClient == {"p1"}

\* concurrent getOrCreateChat requests
SpecChat == Init /\ [][ChatNext]_vars
\* getOrCreateChat requests one after the other
SeqChat == Init /\ [][ChatNext /\ Sequential]_vars
\* concurrent sendMessage and getChatMessages requests
SpecMsg == InitMsg /\ [][MsgNext(Procs, BasicBodies, MaxRaceMsgs)]_vars
\* the same requests one after the other
SeqMsg == InitMsg /\ [][MsgNext(OneClient, BasicBodies, MaxMsgs)]_vars
\* one after the other, with bodies at the length limits
SeqBody == InitMsg /\ [][MsgNext(OneClient, BoundaryBodies, MaxBodyMsgs)]_vars

\* u1 sells to u2 and to u3: two conversations, as getOrCreateChat stores them
InitInbox ==
  /\ InitWith(<<Chat("u2", "u1", "e1", "u2"), Chat("u3", "u1", "e1", "u3")>>)
  /\ io = TRUE
  /\ uniqueKey = FALSE

\* one conversation, with and without a socket.io server
InitLog ==
  /\ InitWith(<<Chat("u2", "u1", "e1", "u2")>>)
  /\ io \in BOOLEAN
  /\ uniqueKey = FALSE

\* one conversation holding one message of its buyer, as sendMessage stores it
InitAttach ==
  /\ chats = <<[Chat("u2", "u1", "e1", "u2") EXCEPT !.lastMessageAt = 1]>>
  /\ messages = <<NewMessage([chatId |-> 1, senderId |-> "u2", content |-> 1,
                              createdAt |-> 1], 1)>>
  /\ nextId = 2
  /\ equipment = EquipmentIds
  /\ now = 1
  /\ events = SendEvents(1, "u2", 1)
  /\ pc = [p \in Procs |-> "idle"]
  /\ call = [p \in Procs |-> NoCall]
  /\ resp = [p \in Procs |-> NoResp]
  /\ io = TRUE
  /\ uniqueKey = FALSE

\* callers that load the message and add attachments to it
AttachNext ==
  \/ \E p \in Procs : LoadMessage(p)
  \/ \E p \in Procs : AddAttachment(p, Urls)
  \/ \E p \in Procs : Return(p)

\* concurrent deleteMessage requests
DeleteNext ==
  \/ \E p \in Procs : DelStart(p)
  \/ \E p \in Procs : DelDestroy(p)
  \/ \E p \in Procs : DelRespond(p)
  \/ \E p \in Procs : Return(p)

PlainBodies == {Body(0, 1)}
OneUrl == {"f1"}

InboxNext(P, bodies, bound) ==
  \/ MsgNext(P, bodies, bound)
  \/ \E p \in P : UnreadStart(p)
  \/ \E p \in P : UnreadCount(p)
  \/ \E p \in P : ModelUnread(p)
  \/ \E p \in P : GetUserChats(p)

\* sendMessage, getChatMessages and deleteMessage, with emits that may throw
LogNext(P, bodies, bound) ==
  \/ MsgNext(P, bodies, bound)
  \/ \E p \in P : SendEmitFails(p)
  \/ \E p \in P : DelStart(p)
  \/ \E p \in P : DelDestroy(p)
  \/ \E p \in P : DelRespond(p)
  \/ \E p \in P : DelEmitFails(p)

\* every operation that reads or writes a message apart from deleteMessage,
\* while fewer than chatBound conversations are stored; the clock stands still
FlagNext(P, bodies, bound, chatBound) ==
  \/ \E p \in P : SendStart(p, bodies, bound)
  \/ \E p \in P : SendCreate(p)
  \/ \E p \in P : SendHook(p)
  \/ \E p \in P : SendUpdate(p)
  \/ \E p \in P : SendRespond(p)
  \/ \E p \in P : GetStart(p)
  \/ \E p \in P : GetPage(p)
  \/ \E p \in P : GetMark(p)
  \/ \E p \in P : GetUpdate(p)
  \/ \E p \in P : Len(chats) < chatBound /\ GocStart(p)
  \/ \E p \in P : GocFindOne(p)
  \/ \E p \in P : GocEquipment(p)
  \/ \E p \in P : GocCreate(p)
  \/ \E p \in P : LoadMessage(p)
  \/ \E p \in P : MarkAsRead(p)
  \/ \E p \in P : AddAttachment(p, OneUrl)
  \/ \E p \in P : UnreadStart(p)
  \/ \E p \in P : UnreadCount(p)
  \/ \E p \in P : Return(p)

\* requests on two conversations, one after the other
SeqInbox == InitInbox /\ [][InboxNext(OneClient, PlainBodies, MaxInboxMsgs)]_vars
\* sending, reading and deleting in one conversation, one after the other
SeqLog == InitLog /\ [][LogNext(OneClient, PlainBodies, MaxLogMsgs)]_vars
\* the operations that may touch a read flag, one after the other
SeqFlags == InitMsg /\ [][FlagNext(OneClient, PlainBodies, MaxFlagMsgs, MaxFlagChats)]_vars

\* sendMessage and getChatMessages over a database that may reject a statement
FailNext(P, bodies, bound) ==
  \/ MsgNext(P, bodies, bound)
  \/ \E p \in P : SendFails(p)

\* requests one after the other, with storage failures
SeqFail == InitLog /\ [][FailNext(OneClient, PlainBodies, MaxFailMsgs)]_vars
\* concurrent addAttachment calls on one message
SpecAttach == InitAttach /\ [][AttachNext]_vars

\* concurrent deleteMessage requests on a conversation with one message
SpecDelete == InitAttach /\ [][DeleteNext]_vars

\* ------------------------------------------------------------------ claims
\* the stored conversations between a and b (in either role) about listing l
ConversationsFor(a, b, l) ==
  {i \in DOMAIN chats :
     {chats[i].buyerId, chats[i].sellerId} = {a, b} /\ chats[i].equipmentId = l}

IsGoc(p) == call[p].op = "getOrCreateChat"
GocDone(p) == pc[p] = "done" /\ IsGoc(p)
GocKey(p) == <<{call[p].senderId, call[p].recipientId}, call[p].equipmentId>>
\* the request takes a step
Steps(p) == pc'[p] # pc[p]

\* C1: concurrent getOrCreateChat requests for one pair of users and one
\* listing leave exactly one conversation for them, and every request is
\* answered with that conversation.
C1_OneConversationPerPair ==
  /\ \A a, b \in Users, l \in EquipmentIds :
       a # b => Cardinality(ConversationsFor(a, b, l)) <= 1
  /\ \A p, q \in Procs :
       (/\ GocDone(p) /\ GocDone(q)
        /\ GocKey(p) = GocKey(q)
        /\ resp[p].code = "OK" /\ resp[q].code = "OK")
       => resp[p].data = resp[q].data
  /\ \A p \in Procs : GocDone(p) => resp[p].code # "CONFLICT"

\* C2: when a conversation for the pair and listing is stored, the lookup
\* of a request by either participant returns a stored conversation of that
\* pair and listing, and stores, changes and emits nothing.
C2_ExistingReturned ==
  [][\A p \in Procs :
       (/\ pc[p] = "goc_findOne"
        /\ Steps(p)
        /\ ConversationsFor(call[p].senderId, call[p].recipientId, call[p].equipmentId) # {})
       => /\ pc'[p] = "done"
          /\ resp'[p].code = "OK"
          /\ resp'[p].data \in
               ConversationsFor(call[p].senderId, call[p].recipientId, call[p].equipmentId)
          /\ UNCHANGED <<chats, messages, events>>]_vars

\* a request was answered with a conversation that its recipient initiated
C2_Witness ==
  \E p \in Procs :
    /\ GocDone(p)
    /\ resp[p].code = "OK"
    /\ chats[resp[p].data].initiatedBy = call[p].recipientId
    /\ Len(chats) = 1

\* a request by the listing's seller a toward b, and one by b toward a
Mirrored(p, q) ==
  /\ p # q
  /\ GocDone(p) /\ GocDone(q)
  /\ call[p].equipmentId = call[q].equipmentId
  /\ call[p].senderId = call[q].recipientId
  /\ call[p].recipientId = call[q].senderId
  /\ call[p].senderId # call[p].recipientId
  /\ call[p].equipmentId \in EquipmentIds
  /\ SellerOf(call[p].equipmentId) = call[p].senderId

\* C3: with the listing's seller A, the requests A->B and B->A made one after
\* the other, in either order, return the same conversation, whose buyer is
\* B and whose seller is A.
C3_RoleNormalization ==
  \A p, q \in Procs :
    (Mirrored(p, q) /\ (resp[p].code = "OK" \/ resp[q].code = "OK"))
    => /\ resp[p].code = "OK" /\ resp[q].code = "OK"
       /\ resp[p].data = resp[q].data
       /\ chats[resp[p].data].sellerId = call[p].senderId
       /\ chats[resp[p].data].buyerId = call[p].recipientId

\* both requests were answered with the conversation that the seller initiated
C3_Witness ==
  \E p, q \in Procs :
    /\ Mirrored(p, q)
    /\ resp[p].code = "OK" /\ resp[q].code = "OK"
    /\ chats[resp[p].data].initiatedBy = call[p].senderId

\* C4: the seller of every stored conversation is the seller of its listing.
C4_SellerSlotIsListingSeller ==
  \A i \in DOMAIN chats : chats[i].sellerId = SellerOf(chats[i].equipmentId)

\* a request that names its sender as recipient arrives
SelfChatArrives(p) ==
  /\ pc[p] = "idle"
  /\ Steps(p)
  /\ call'[p].op = "getOrCreateChat"
  /\ call'[p].senderId = call'[p].recipientId

\* C5 as stated: a request with requester = recipient fails with
\* InvalidOperation and creates no conversation.
C5_SelfChatInvalidOperation ==
  [][\A p \in Procs :
       SelfChatArrives(p)
       => /\ pc'[p] = "done"
          /\ resp'[p].code = "INVALID_OPERATION"
          /\ chats' = chats]_vars

\* C5 as amended: a request with requester = recipient fails with
\* ValidationError (VALIDATION_ERROR) and creates no conversation.
C5_SelfChatValidationError ==
  [][\A p \in Procs :
       SelfChatArrives(p)
       => /\ pc'[p] = "done"
          /\ resp'[p].code = "VALIDATION_ERROR"
          /\ chats' = chats]_vars

\* a self-chat request was rejected while a conversation of that user exists
C5_Witness ==
  \E p \in Procs :
    /\ GocDone(p)
    /\ call[p].senderId = call[p].recipientId
    /\ resp[p].code = "VALIDATION_ERROR"
    /\ \E i \in DOMAIN chats : chats[i].initiatedBy = call[p].senderId

\* the recipient is no user, or the listing has no (undeleted) row
MissingRef(p) ==
  call[p].recipientId \notin Users \/ call[p].equipmentId \notin equipment

\* the request runs one of its lookups
Looks(p) == pc[p] \in {"goc_findOne", "goc_equipment"} /\ Steps(p)

\* C6 as stated: in every state a request whose recipient is unknown or
\* whose listing does not exist fails with NotFound and creates nothing.
C6_MissingIsNotFound ==
  [][\A p \in Procs :
       (Looks(p) /\ MissingRef(p))
       => /\ pc'[p] # "goc_create"
          /\ pc'[p] = "done" => resp'[p].code = "NOT_FOUND"
          /\ chats' = chats]_vars

\* C6 as amended: such a request fails with NotFound unless its lookup
\* finds a conversation of the pair and listing already stored, which it
\* then returns; in both cases it creates nothing.
C6_MissingNotFoundUnlessStored ==
  [][\A p \in Procs :
       (Looks(p) /\ MissingRef(p))
       => LET stored ==
                ConversationsFor(call[p].senderId, call[p].recipientId, call[p].equipmentId)
              found == pc[p] = "goc_findOne" /\ stored # {}
          IN /\ pc'[p] # "goc_create"
             /\ chats' = chats
             /\ ~found /\ pc'[p] = "done" => resp'[p].code = "NOT_FOUND"
             /\ ~found /\ call[p].recipientId \notin Users => pc'[p] = "done"
             /\ pc[p] = "goc_equipment" => pc'[p] = "done"
             /\ found =>
                  /\ pc'[p] = "done"
                  /\ resp'[p].code = "OK"
                  /\ resp'[p].data \in stored]_vars

\* one request got the conversation of a deleted listing, another NotFound
C6_Witness ==
  \E p, q \in Procs :
    /\ GocDone(p) /\ GocDone(q)
    /\ call[p].equipmentId \in EquipmentIds \ equipment
    /\ resp[p].code = "OK"
    /\ MissingRef(q)
    /\ resp[q].code = "NOT_FOUND"

IsSend(p) == call[p].op = "sendMessage"
IsGet(p) == call[p].op = "getChatMessages"
\* the user named by a sendMessage or getChatMessages request
CallerOf(c) == IF c.op = "sendMessage" THEN c.senderId ELSE c.userId
\* the buyer and the seller of a conversation
Members(chatId) == {chats[chatId].buyerId, chats[chatId].sellerId}

\* a sendMessage or getChatMessages request of a non-member arrives
StrangerArrives(p) ==
  /\ pc[p] = "idle"
  /\ Steps(p)
  /\ call'[p].op \in {"sendMessage", "getChatMessages"}
  /\ CallerOf(call'[p]) \notin Members(call'[p].chatId)

\* C7: getChatMessages and sendMessage by a user who is neither buyer nor
\* seller of the conversation fail with Forbidden, and append no message,
\* change no read flag and no last-activity timestamp, and emit no event.
C7_StrangerForbidden ==
  [][\A p \in Procs :
       StrangerArrives(p)
       => /\ pc'[p] = "done"
          /\ resp'[p].code = "FORBIDDEN"
          /\ UNCHANGED <<messages, chats, events>>]_vars

\* a stranger's request was refused while the conversation held an unread message
C7_Witness ==
  \E p \in Procs :
    /\ pc[p] = "done"
    /\ call[p].op \in {"sendMessage", "getChatMessages"}
    /\ CallerOf(call[p]) \notin Members(call[p].chatId)
    /\ resp[p].code = "FORBIDDEN"
    /\ \E i \in DOMAIN messages : messages[i].chatId = call[p].chatId /\ ~messages[i].isRead

\* a member's sendMessage request is answered
MemberSendDone(p) ==
  /\ pc[p] = "done"
  /\ IsSend(p)
  /\ call[p].senderId \in Members(call[p].chatId)

Fits(b) == b.core >= 1 /\ b.core <= 2000

C9_SentOrderReturned ==
  \A p \in Procs :
    (pc[p] = "done" /\ IsGet(p) /\ resp[p].code = "OK" /\ call[p].limit >= 3)
    => \A i, j \in DOMAIN resp[p].data :
         i < j => resp[p].data[i] < resp[p].data[j]

\* the participant of a conversation who is not `u`
Others(chatId, u) == Members(chatId) \ {u}
ReadFlags(u) == {<<m.id, m.isRead>> : m \in {messages[i] : i \in {k \in DOMAIN messages : messages[k].senderId = u}}}

\* C10: when a participant's getChatMessages returns a non-empty page, every
\* message of the other participant in the conversation is read and the
\* caller's unread count for it is 0; no step of the request changes the read
\* flag of the caller's own messages or the other participant's unread count.
C10_ReadOnFetch ==
  [][\A p \in Procs :
       (IsGet(p) /\ Steps(p) /\ pc[p] # "done")
       => /\ (pc'[p] = "done" /\ Len(resp'[p].data) > 0)
             => /\ CountUnread({call[p].chatId}, call[p].userId)' = 0
                /\ \A i \in DOMAIN messages' :
                     (messages'[i].chatId = call[p].chatId
                        /\ messages'[i].senderId # call[p].userId)
                     => messages'[i].isRead
          /\ ReadFlags(call[p].userId)' = ReadFlags(call[p].userId)
          /\ \A a \in Others(call[p].chatId, call[p].userId) :
               CountUnread({call[p].chatId}, a)' = CountUnread({call[p].chatId}, a)]_vars

\* a fetch returned messages; the other's are read, the caller's own is unread
C10_Witness ==
  \E p \in Procs :
    /\ pc[p] = "done" /\ IsGet(p) /\ resp[p].code = "OK"
    /\ Len(resp[p].data) > 0
    /\ \E i \in DOMAIN messages :
         messages[i].senderId # call[p].userId /\ messages[i].isRead
    /\ \E i \in DOMAIN messages :
         messages[i].senderId = call[p].userId /\ ~messages[i].isRead
    /\ CountUnread({call[p].chatId}, call[p].userId) = 0

\* the messages that are unread for u: in a conversation whose buyer or seller
\* is u, sent by someone else, with the read flag false
UnreadOf(u) ==
  {i \in DOMAIN messages :
     /\ u \in Members(messages[i].chatId)
     /\ messages[i].senderId # u
     /\ ~messages[i].isRead}

\* C11: getUnreadCount(user) answers the number of messages, over all
\* conversations in which the user is buyer or seller, whose sender is not the
\* user and whose read flag is false, and no step of it changes stored state.
C11_UnreadCountTotal ==
  [][\A p \in Procs :
       /\ (pc[p] = "idle" /\ Steps(p) /\ call'[p].op = "getUnreadCount")
          => UNCHANGED db
       /\ (pc[p] = "unread_count" /\ Steps(p))
          => /\ pc'[p] = "done"
             /\ resp'[p] = Ok(Cardinality(UnreadOf(call[p].userId)))
             /\ UNCHANGED db]_vars

\* u2 was told 1 while two messages are unread, one of them in a
\* conversation of other users
C11_Witness ==
  \E p \in Procs :
    /\ pc[p] = "done"
    /\ call[p].op = "getUnreadCount"
    /\ call[p].userId = "u2"
    /\ resp[p] = Ok(1)
    /\ Len(messages) = 2
    /\ \A i \in DOMAIN messages : ~messages[i].isRead
    /\ \E i \in DOMAIN messages : "u2" \notin Members(messages[i].chatId)

\* the ids of the messages whose read flag is true
ReadIds == {messages[i].id : i \in {k \in DOMAIN messages : messages[k].isRead}}

\* C12: a read flag that is true stays true: no step of getOrCreateChat,
\* sendMessage, getChatMessages, markAsRead, addAttachment or getUnreadCount
\* sets it back to false.
C12_ReadFlagMonotone ==
  [][ReadIds \subseteq ReadIds']_vars

\* an attachment was added to a message after it was read, a later message
\* is unread, and a second conversation was created
C12_Witness ==
  \E p \in Procs :
    /\ pc[p] = "done"
    /\ call[p].op = "addAttachment"
    /\ resp[p].code = "OK"
    /\ call[p].messageId \in ReadIds
    /\ \E i \in DOMAIN messages :
         messages[i].id > call[p].messageId /\ ~messages[i].isRead
    /\ Len(chats) = 2

\* a getChatMessages request whose page came back empty runs a later step
EmptyPageStep(p) ==
  /\ pc[p] \in {"get_mark", "get_update"}
  /\ Steps(p)
  /\ Len(call[p].rows) = 0

\* C13: a getChatMessages request of a participant that returns an empty
\* page changes no read flag and leaves the last-activity timestamp alone.
C13_EmptyPageNoEffects ==
  [][\A p \in Procs : EmptyPageStep(p) => UNCHANGED <<messages, chats>>]_vars

IsDelete(p) == call[p].op = "deleteMessage"
\* the sender of the stored message `id`
SenderOf(id) == messages[CHOOSE i \in DOMAIN messages : messages[i].id = id].senderId
\* the roles whose ROLES entry lists 'delete' under messages
DeleteRoles == {"admin"}

\* a deleteMessage request for a stored message arrives
DeleteArrives(p) ==
  /\ pc[p] = "idle"
  /\ Steps(p)
  /\ call'[p].op = "deleteMessage"
  /\ FindMessage(call'[p].messageId) # {}

\* C14: deleteMessage on a stored message goes through, removes the message
\* and answers success when the requester is its sender or has a role that
\* grants delete on messages; otherwise it fails with Forbidden and the
\* message stays in the log.
C14_DeleteAuthorization ==
  [][\A p \in Procs :
       /\ DeleteArrives(p)
          => IF \/ SenderOf(call'[p].messageId) = call'[p].userId
                \/ call'[p].role \in DeleteRoles
               THEN pc'[p] = "del_destroy"
               ELSE /\ pc'[p] = "done"
                    /\ resp'[p].code = "FORBIDDEN"
                    /\ messages' = messages
       /\ (pc[p] = "del_destroy" /\ Steps(p))
          => /\ pc'[p] = "del_respond"
             /\ FindMessage(call[p].messageId)' = {}
       /\ (pc[p] = "del_respond" /\ Steps(p))
          => /\ pc'[p] = "done"
             /\ resp'[p].code = "OK"
             /\ messages' = messages]_vars

\* an admin outside the conversation deleted a message; another one is left
C14_Witness ==
  \E p \in Procs :
    /\ pc[p] = "done"
    /\ IsDelete(p)
    /\ resp[p].code = "OK"
    /\ call[p].role = "admin"
    /\ call[p].userId \notin Members(call[p].chatId)
    /\ FindMessage(call[p].messageId) = {}
    /\ Len(messages) = 1

\* the orders, as sequences of message ids, in which getChatMessages may list
\* the messages of a conversation
IdOrders(chatId) ==
  {[k \in DOMAIN ord |-> messages[ord[k]].id] : ord \in Orderings(ChatMessages(chatId))}
\* a sequence of ids without the id `id`
Drop(ids, id) == SelectSeq(ids, LAMBDA x : x # id)
\* the stored rows other than message `id`
Rest(id) == {messages[i] : i \in {k \in DOMAIN messages : messages[k].id # id}}
Rows == {messages[i] : i \in DOMAIN messages}
DeletedEvent(p) == Event("messageDeleted", <<"chat", call[p].chatId>>, call[p].messageId)

\* the destroy step removes exactly the target: every other row is unchanged
\* and the orders getChatMessages may use are the former ones without the target
RemovesExactlyTarget(p) ==
  (pc[p] = "del_destroy" /\ Steps(p))
  => /\ Rows' = Rest(call[p].messageId)
     /\ Len(messages') = Cardinality(Rest(call[p].messageId))
     /\ \A c \in DOMAIN chats :
          IdOrders(c)' = {Drop(o, call[p].messageId) : o \in IdOrders(c)}
     /\ UNCHANGED <<chats, events>>

\* a request for an id that has no row fails with NotFound and changes nothing
MissingIsNotFound(p) ==
  (/\ pc[p] = "idle" /\ Steps(p)
   /\ call'[p].op = "deleteMessage"
   /\ FindMessage(call'[p].messageId) = {})
  => /\ pc'[p] = "done"
     /\ resp'[p].code = "NOT_FOUND"
     /\ UNCHANGED <<messages, chats, events>>

\* C15 as stated: an authorized deleteMessage removes exactly the target
\* message, and a messageDeleted event with the message id and the
\* conversation id is emitted on the conversation channel; deleteMessage for
\* an id without a row fails with NotFound and changes nothing.
C15_DeleteAlwaysEmits ==
  [][\A p \in Procs :
       /\ RemovesExactlyTarget(p)
       /\ MissingIsNotFound(p)
       /\ (pc[p] = "del_respond" /\ Steps(p))
          => /\ events' = events (+) SetToBag({DeletedEvent(p)})
             /\ UNCHANGED <<messages, chats>>]_vars

\* C15 as amended: the same, with the event emitted once when a socket.io
\* server is set and its emit does not throw, and no event otherwise.
C15_DeleteEmitsWhenDelivered ==
  [][\A p \in Procs :
       /\ RemovesExactlyTarget(p)
       /\ MissingIsNotFound(p)
       /\ (pc[p] = "del_respond" /\ Steps(p))
          => /\ events' = IF io /\ "failed" \notin DOMAIN call'[p]
                             THEN events (+) SetToBag({DeletedEvent(p)})
                             ELSE events
             /\ UNCHANGED <<messages, chats>>]_vars

\* the first of two messages was deleted and announced; the second is still
\* stored and unread
C15_Witness ==
  \E p \in Procs :
    /\ pc[p] = "done"
    /\ IsDelete(p)
    /\ resp[p].code = "OK"
    /\ call[p].messageId = 1
    /\ BagIn(DeletedEvent(p), events)
    /\ \E i \in DOMAIN messages :
         /\ messages[i].id = 2
         /\ ~messages[i].isRead
         /\ messages[i].chatId = call[p].chatId

\* the emit of the request's last step throws
FanoutFails(p) ==
  /\ pc[p] \in {"send_respond", "del_respond"}
  /\ Steps(p)
  /\ "failed" \in DOMAIN call'[p]

\* C16: when the emit of sendMessage or deleteMessage throws, the message
\* stays appended (or stays deleted), nothing stored changes, and the caller
\* keeps the success response.
C16_FanoutFailureKept ==
  [][\A p \in Procs :
       FanoutFails(p)
       => /\ pc'[p] = "done"
          /\ resp'[p].code = "OK"
          /\ UNCHANGED <<messages, chats>>
          /\ pc[p] = "send_respond"
               => /\ FindMessage(call[p].messageId)' # {}
                  /\ resp'[p].data = call[p].messageId
          /\ pc[p] = "del_respond" => FindMessage(call[p].messageId)' = {}]_vars

\* a send whose second emit threw: the message is stored, the sender has the
\* success response, the recipient's personal channel got nothing
C16_Witness ==
  \E p \in Procs :
    /\ pc[p] = "done"
    /\ IsSend(p)
    /\ "failed" \in DOMAIN call[p]
    /\ resp[p] = Ok(call[p].messageId)
    /\ FindMessage(call[p].messageId) # {}
    /\ BagIn(Event("newMessage", <<"chat", call[p].chatId>>, call[p].messageId), events)
    /\ \A e \in BagToSet(events) : e.type # "newChatMessage"

\* the stored attachment list of message `id`
StoredAttachments(id) ==
  messages[CHOOSE i \in DOMAIN messages : messages[i].id = id].attachments

\* an addAttachment call on a stored message runs
AddRuns(p) ==
  /\ pc[p] = "loaded"
  /\ Steps(p)
  /\ call'[p].op = "addAttachment"
  /\ FindMessage(call[p].messageId) # {}

\* C17: every message has at most 5 attachments; the append that makes the
\* fifth is accepted; addAttachment on a message that has 5 attachments
\* fails and leaves its list unchanged, also under concurrent calls.
C17_AttachmentLimit ==
  [][/\ \A i \in DOMAIN messages' : Len(messages'[i].attachments) <= MaxAttachments
     /\ \A p \in Procs :
          AddRuns(p)
          => /\ Len(call[p].attachments) = MaxAttachments - 1
                  => /\ resp'[p].code = "OK"
                     /\ Len(StoredAttachments(call[p].messageId)') = MaxAttachments
             /\ Len(StoredAttachments(call[p].messageId)) = MaxAttachments
                  => /\ resp'[p].code # "OK"
                     /\ messages' = messages]_vars

\* C18: getUserChats returns only conversations whose buyer or seller is the
\* user, each once, ordered by last-activity timestamp descending, all of
\* them on a first page that is large enough; it changes no stored state.
C18_ListOwnChatsByActivity ==
  [][\A p \in Procs :
       (pc[p] = "idle" /\ Steps(p) /\ call'[p].op = "getUserChats")
       => LET u == call'[p].userId
              rows == resp'[p].data
              own == {i \in DOMAIN chats : u \in Members(i)}
          IN /\ pc'[p] = "done"
             /\ resp'[p].code = "OK"
             /\ \A k \in DOMAIN rows : rows[k].id \in own
             /\ \A k, l \in DOMAIN rows :
                  k < l => /\ rows[k].id # rows[l].id
                           /\ chats[rows[k].id].lastMessageAt >= chats[rows[l].id].lastMessageAt
             /\ (call'[p].page = 1 /\ call'[p].limit >= Cardinality(own))
                  => {rows[k].id : k \in DOMAIN rows} = own
             /\ UNCHANGED db]_vars

\* the seller listed both conversations, the one with the later activity
\* first, while a message in it is unread
C18_Witness ==
  \E p \in Procs :
    /\ pc[p] = "done"
    /\ call[p].op = "getUserChats"
    /\ call[p].userId = "u1"
    /\ resp[p].code = "OK"
    /\ Len(resp[p].data) = 2
    /\ resp[p].data[1].id = 2
    /\ chats[2].lastMessageAt > chats[1].lastMessageAt
    /\ resp[p].data[1].lastMessage # 0
    /\ \E i \in DOMAIN messages : ~messages[i].isRead

\* the unread messages of one conversation for u
UnreadIn(u, chatId) == {i \in UnreadOf(u) : messages[i].chatId = chatId}

\* C19: the unread count asked for one conversation is the count of that
\* conversation when the user is its buyer or seller, and the call fails
\* with Forbidden when the user is not a participant of it.
C19_ScopedUnreadOrForbidden ==
  \A p \in Procs :
    (/\ pc[p] = "done"
     /\ call[p].op = "Message.getUnreadCount"
     /\ call[p].chatId # NoChat)
    => IF call[p].userId \in Members(call[p].chatId)
         THEN resp[p] = Ok(Cardinality(UnreadIn(call[p].userId, call[p].chatId)))
         ELSE resp[p].code = "FORBIDDEN"

\* the creation timestamp of the stored message `id`
CreatedAt(id) == messages[CHOOSE i \in DOMAIN messages : messages[i].id = id].createdAt

\* C20: getChatMessages returns concurrently sent messages in the order in
\* which their inserts were committed (ids are given in commit order): of two
\* returned messages with different creation timestamps, the one committed
\* later comes later.
C20_CommitOrderReturned ==
  \A p \in Procs :
    (pc[p] = "done" /\ IsGet(p) /\ resp[p].code = "OK")
    => \A k, l \in DOMAIN resp[p].data :
         (k < l /\ CreatedAt(resp[p].data[k]) # CreatedAt(resp[p].data[l]))
         => resp[p].data[k] < resp[p].data[l]

\* C21: two messages of a conversation with the same creation timestamp are
\* returned by getChatMessages in their insertion order (ids are given in
\* insertion order).
C21_TiesInInsertionOrder ==
  \A p \in Procs :
    (pc[p] = "done" /\ IsGet(p) /\ resp[p].code = "OK")
    => \A k, l \in DOMAIN resp[p].data :
         (k < l /\ CreatedAt(resp[p].data[k]) = CreatedAt(resp[p].data[l]))
         => resp[p].data[k] < resp[p].data[l]

\* the request inserted a message that is still stored
Inserted(p) == "messageId" \in DOMAIN call[p] /\ FindMessage(call[p].messageId) # {}

\* C22: sendMessage is atomic: the caller of a finished request either has
\* the stored message, with the conversation's last activity not before the
\* message's creation, or has an error and no message of the request is stored.
C22_SendAtomic ==
  \A p \in Procs :
    (pc[p] = "done" /\ IsSend(p))
    => IF resp[p].code = "OK"
         THEN /\ FindMessage(resp[p].data) # {}
              /\ chats[call[p].chatId].lastMessageAt >= CreatedAt(resp[p].data)
         ELSE ~Inserted(p)

\* an accepted sendMessage request responds
SendResponds(p) == pc[p] = "send_respond" /\ Steps(p) /\ resp'[p].code = "OK"
\* the events that a send owes: one on the conversation's channel, one on the
\* personal channel of each participant other than the sender
OwedEvents(p) ==
  {Event("newMessage", <<"chat", call[p].chatId>>, call[p].messageId)}
  \cup {Event("newChatMessage", <<"user", u>>, call[p].messageId) :
          u \in Others(call[p].chatId, call[p].senderId)}
\* the events added by the step, as a bag
Emitted == events' (-) events

C24_EmitAfterPersistAndResponse ==
  [][\A p \in Procs :
       /\ (Steps(p) /\ events' # events)
          => /\ pc[p] = "send_respond"
             /\ resp[p] = NoResp
             /\ resp'[p] = Ok(call[p].messageId)
             /\ FindMessage(call[p].messageId) # {}
             /\ chats[call[p].chatId].lastMessageAt >= CreatedAt(call[p].messageId)
             /\ BagToSet(Emitted) \subseteq OwedEvents(p)
       /\ (Steps(p) /\ pc'[p] = "done" /\ resp'[p].code # "OK")
          => events' = events
       /\ (pc[p] = "send_respond" /\ Steps(p) /\ ~io)
          => /\ events' = events
             /\ resp'[p] \in {Ok(call[p].messageId), Err("DATABASE_ERROR")}]_vars

\* without a socket.io server a message was sent with success and no event
C24_Witness ==
  \E p \in Procs :
    /\ pc[p] = "done"
    /\ IsSend(p)
    /\ ~io
    /\ resp[p].code = "OK"
    /\ FindMessage(resp[p].data) # {}
    /\ events = EmptyBag
    /\ nextId = 2

\* the stored row of message `id`
RowOf(id) == messages[CHOOSE i \in DOMAIN messages : messages[i].id = id]

\* C25: the content of a stored message never changes, and addAttachment on
\* a message whose read flag is true leaves its attachment list unchanged.
C25_AppendOnlyBeforeRead ==
  [][/\ \A i \in DOMAIN messages :
          FindMessage(messages[i].id)' # {}
          => RowOf(messages[i].id)'.content = messages[i].content
     /\ \A p \in Procs :
          (AddRuns(p) /\ RowOf(call[p].messageId).isRead)
          => RowOf(call[p].messageId)'.attachments
               = RowOf(call[p].messageId).attachments]_vars

\* the elements of a sequence
Range(f) == {f[k] : k \in DOMAIN f}

\* C26: a getChatMessages request marks as read only messages that were in
\* the log when it fetched its page (a first page with room for the whole
\* log holds every message that was stored then).
C26_MarksOnlyFetched ==
  [][\A p \in Procs :
       (/\ pc[p] = "get_mark"
        /\ Steps(p)
        /\ call[p].page = 1
        /\ call[p].limit > Len(call[p].rows))
       => (ReadIds' \ ReadIds) \subseteq Range(call[p].rows)]_vars

\* two finished deleteMessage requests for one message, neither refused
BothDeleted(p, q) ==
  /\ p # q
  /\ pc[p] = "done" /\ pc[q] = "done"
  /\ IsDelete(p) /\ IsDelete(q)
  /\ call[p].messageId = call[q].messageId
  /\ resp[p].code # "FORBIDDEN" /\ resp[q].code # "FORBIDDEN"

\* C27: of two authorized deleteMessage requests for the same message,
\* exactly one succeeds and the other fails with NotFound, and exactly one
\* messageDeleted event is emitted for the message.
C27_OneDeleteWins ==
  \A p, q \in Procs :
    (BothDeleted(p, q) /\ resp[p].code = "OK")
    => /\ resp[q].code = "NOT_FOUND"
       /\ CopiesIn(DeletedEvent(p), events) = 1

\* C28: under every interleaving of sendMessage and getChatMessages a
\* conversation's last-activity timestamp never decreases, and when an
\* accepted sendMessage responds it is not before the creation timestamp of
\* the message that was appended.
C28_LastActivityMonotone ==
  [][/\ \A i \in DOMAIN chats : chats'[i].lastMessageAt >= chats[i].lastMessageAt
     /\ \A p \in Procs :
          (SendResponds(p) /\ FindMessage(call[p].messageId) # {})
          => chats'[call[p].chatId].lastMessageAt >= CreatedAt(call[p].messageId)]_vars


\* C29: in every reachable state the sender of every message in the log is
\* the buyer or the seller of the conversation that owns the message.
C29_SenderIsMember ==
  \A i \in DOMAIN messages : messages[i].senderId \in Members(messages[i].chatId)

\* both conversations hold a message, and the sender of the one in the first
\* conversation is not a member of the second conversation
C29_Witness ==
  \E i, j \in DOMAIN messages :
    /\ messages[i].chatId = 1 /\ messages[j].chatId = 2
    /\ messages[i].senderId \notin Members(2)
    /\ messages[j].senderId \in Members(2)


\* the identity of a conversation: the fields set at creation
Identity(c) == <<c.buyerId, c.sellerId, c.equipmentId, c.initiatedBy>>
\* request p's db.Chat.create commits
ChatCreated(p) == pc[p] = "goc_create" /\ Steps(p) /\ Len(chats') = Len(chats) + 1

\* C30: in every reachable state each conversation's buyer and seller are two
\* distinct users and its initiator is one of them, namely the requester of the
\* getOrCreateChat call that created it; no operation of the chat controller
\* removes a conversation or changes its buyer, seller, listing or initiator.
C30_IdentityFixed ==
  /\ [](\A i \in DOMAIN chats :
          /\ chats[i].buyerId # chats[i].sellerId
          /\ chats[i].initiatedBy \in Members(i))
  /\ [][/\ Len(chats') >= Len(chats)
         /\ \A i \in DOMAIN chats : Identity(chats'[i]) = Identity(chats[i])
         /\ \A p \in Procs :
              ChatCreated(p) => chats'[Len(chats')].initiatedBy = call[p].senderId]_vars

\* a second conversation was just created by its seller while the first one
\* has had its last-activity timestamp written by a message
C30_Witness ==
  /\ Len(chats) = 2
  /\ chats[1].lastMessageAt > 0
  /\ chats[2].initiatedBy = chats[2].sellerId
  /\ \E p \in Procs :
        /\ pc[p] = "done" /\ call[p].op = "getOrCreateChat"
        /\ resp[p] = Ok(2) /\ call[p].senderId = chats[2].initiatedBy

=============================================================================
